---- MODULE Spec2Model ----
(***************************************************************************)
(* A model of the awstream runtime: the bandwidth profile (profile.rs) and *)
(* the framed transport (socket.rs).                                       *)
(*                                                                         *)
(* Bandwidths are f64 in the source.  Here a bandwidth is an integer that  *)
(* counts half units, so 1.0 is 2, 1.5 is 3 and 4.0 is 8; NaN is one extra *)
(* value that compares with nothing.                                       *)
(***************************************************************************)
EXTENDS Integers, Sequences, FiniteSets, TLC

\* ------------------------------------------------------------------------
\* Bounds of the profile model
\* ------------------------------------------------------------------------

\* The longest table (rows of a profile file, records of a vector).
MaxLevels == 4

\* f64 x.0 and x.5 in half units.
Whole(x) == 2 * x
Halves(x) == 2 * x + 1

\* The thresholds a row may carry: 0.0, 1.0, .. MaxLevels.0
ThresholdValues == { Whole(k) : k \in 0..MaxLevels }

\* NaN: the one f64 (of the model) that partial_cmp cannot compare.
NaN == Whole(MaxLevels) + 2

\* The bandwidths a caller may pass: -0.5 .. MaxLevels.5 in half steps, and NaN.
Bandwidths == ((-1)..Halves(MaxLevels)) \cup {NaN}

\* A row of the profile file that does not deserialize into a Record.
Malformed == NaN + 1

\* The longest table whose rows are in any order or malformed (the loader
\* neither sorts nor validates the order; such files are kept shorter).
MaxUnsorted == 2

\* Thresholds in non-decreasing order.
Ascending(s) == \A i \in 1..Len(s) : \A j \in i..Len(s) : s[i] <= s[j]

\* Thresholds in strictly increasing order.
StrictlyAscending(s) ==
    \A i \in 1..Len(s) : \A j \in (i + 1)..Len(s) : s[i] < s[j]

\* The contents of a profile file: rows, each a threshold or malformed.  The
\* payload column of row k (0-based) holds k, as in create_profile.
Files ==
    { f \in UNION { [1..n -> ThresholdValues] : n \in 0..MaxLevels } :
          Ascending(f) }
    \cup UNION { [1..n -> ThresholdValues \cup {Malformed}] : n \in 0..MaxUnsorted }

VARIABLES
    pstate,     \* "unloaded" | "ready" | "panicked": the life of the Profile
    ctor,       \* "none" | "new" | "with_vec": how the Profile was built
    records,    \* Profile.records: Seq of [bandwidth, config]
    levels,     \* SimpleProfile.levels
    current,    \* SimpleProfile.current
    last,       \* the last call on the profile: [op, bw, prev, ret]
    advStart,   \* current index when the present run of advance calls began
    advCount,   \* the successful advance calls of the present run
    test_step   \* how far the calls so far replay test_profile_simple_get

pvars == <<pstate, ctor, records, levels, current, last, advStart, advCount,
           test_step>>

\* The connection: the sink, its transport and the reader.
VARIABLES
    sstate,     \* "idle" | "flushing" (inside poll_complete) | "failed" | "closed"
    buffer,     \* Socket.buffer
    bytes,      \* Socket.bytes, the counter shared with the monitor
    scall,      \* the present or last call on the sink
    accepted,   \* the items start_send accepted, in order
    sent,       \* the bytes net.write took, in order
    nwrites,    \* transport writes that took bytes
    rpos,       \* how many bytes of sent the peer's reader has read
    rstate,     \* "idle" | "polling"
    eof,        \* FramedRead.eof
    is_readable, \* FramedRead.is_readable
    rbuffer,    \* FramedRead.buffer
    rlast,      \* what the last poll returned
    yielded,    \* the items poll yielded, in order
    nreads,     \* transport reads that brought bytes
    decoder,    \* the D of FramedRead<T, D>: "AsCodec" | "any"
    ateof,      \* what was yielded and buffered when eof was set
    nends       \* the polls that returned the end of the sequence

svars == <<sstate, buffer, bytes, scall, accepted, sent, nwrites, rpos,
           rstate, eof, is_readable, rbuffer, rlast, yielded, nreads,
           decoder, ateof, nends>>

sinkvars == <<sstate, buffer, bytes, scall, accepted, sent, nwrites>>
readervars == <<rpos, rstate, eof, is_readable, rbuffer, rlast, yielded, nreads,
                decoder, ateof, nends>>

vars == <<pvars, svars>>

\* ------------------------------------------------------------------------
\* Option<..> values and call records
\* ------------------------------------------------------------------------

None == [tag |-> "None", level |-> -1, bandwidth |-> -1, config |-> -1]
SomeLevel(i) == [tag |-> "Some", level |-> i, bandwidth |-> -1, config |-> -1]
SomeRecord(i, r) ==
    [tag |-> "Some", level |-> i, bandwidth |-> r.bandwidth, config |-> r.config]
Value(c) == [tag |-> "Value", level |-> -1, bandwidth |-> -1, config |-> c]
Panic == [tag |-> "Panic", level |-> -1, bandwidth |-> -1, config |-> -1]

Call(op, bw, prev, ret) == [op |-> op, bw |-> bw, prev |-> prev, ret |-> ret]

\* Record { bandwidth, config, _accuracy }: the accuracy is never read.
Record(bw, c) == [bandwidth |-> bw, config |-> c]

\* ------------------------------------------------------------------------
\* SimpleProfile
\* ------------------------------------------------------------------------

\* f64::partial_cmp(v, bw): "None" when either side is NaN.
partial_cmp(v, bw) ==
    IF v = NaN \/ bw = NaN THEN "None"
    ELSE IF v < bw THEN "Less"
    ELSE IF v = bw THEN "Equal"
    ELSE "Greater"

\* The loop of slice::binary_search_by (core::slice, the size-halving loop):
\* halves the window [base, base+size) until one element is left.  Indices are 0-based as in the source; the
\* result is the base, or -1 when a comparison failed (the closure's expect).
RECURSIVE binary_search_loop(_, _, _, _)
binary_search_loop(s, bw, base, size) ==
    IF size > 1
    THEN LET half == size \div 2
             mid  == base + half
             cmp  == partial_cmp(s[mid + 1], bw)
         IN  IF cmp = "None" THEN -1
             ELSE binary_search_loop(s, bw,
                      IF cmp = "Greater" THEN base ELSE mid, size - half)
    ELSE base

\* binary_search_by that reports the last probed position as the insertion
\* point, whichever side of it bw falls on.
binary_search_by_no_step(s, bw) ==
    IF Len(s) = 0 THEN [tag |-> "Err", i |-> 0]
    ELSE LET base == binary_search_loop(s, bw, 0, Len(s))
         IN  IF base = -1 THEN [tag |-> "Panic", i |-> 0]
             ELSE LET cmp == partial_cmp(s[base + 1], bw)
                  IN  IF cmp = "None" THEN [tag |-> "Panic", i |-> 0]
                      ELSE IF cmp = "Equal" THEN [tag |-> "Ok", i |-> base]
                      ELSE [tag |-> "Err", i |-> base]

\* slice::binary_search_by with the closure |v| v.partial_cmp(&bw).expect(..):
\* Ok(i) when s[i] = bw, Err(i) with i the insertion point otherwise, Panic
\* when the closure's expect fails.
binary_search_by(s, bw) ==
    IF Len(s) = 0 THEN [tag |-> "Err", i |-> 0]
    ELSE LET base == binary_search_loop(s, bw, 0, Len(s))
         IN  IF base = -1 THEN [tag |-> "Panic", i |-> 0]
             ELSE LET cmp == partial_cmp(s[base + 1], bw)
                  IN  IF cmp = "None" THEN [tag |-> "Panic", i |-> 0]
                      ELSE IF cmp = "Equal" THEN [tag |-> "Ok", i |-> base]
                      ELSE [tag |-> "Err",
                            i |-> base + (IF cmp = "Less" THEN 1 ELSE 0)]

\* get_level_index that returns the insertion point itself on a miss.
get_level_index_insertion(lv, bw) ==
    LET pos == binary_search_by(lv, bw)
    IN  CASE pos.tag = "Ok"    -> pos.i
          [] pos.tag = "Err"   -> pos.i
          [] pos.tag = "Panic" -> -1

\* get_level_index that finds no level for a bandwidth below every threshold.
get_level_index_strict(lv, bw) ==
    LET pos == binary_search_by(lv, bw)
    IN  CASE pos.tag = "Ok"    -> pos.i
          [] pos.tag = "Err"   -> IF pos.i = 0 /\ Len(lv) > 0 THEN -1
                                  ELSE IF pos.i = 0 THEN 0 ELSE pos.i - 1
          [] pos.tag = "Panic" -> -1

\* SimpleProfile::get_level_index: the level for bandwidth bw (0-based), or
\* -1 when the comparison panics.
get_level_index(lv, bw) ==
    LET pos == binary_search_by(lv, bw)
    IN  CASE pos.tag = "Ok"    -> pos.i
          [] pos.tag = "Err"   -> IF pos.i = 0 THEN 0 ELSE pos.i - 1
          [] pos.tag = "Panic" -> -1

\* adjust_level that reports a change on every call.
adjust_level_always(lv, cur, bw) ==
    LET new_level == get_level_index(lv, bw)
    IN  IF new_level = -1 THEN [cur |-> cur, ret |-> Panic]
        ELSE [cur |-> new_level, ret |-> SomeLevel(new_level)]

\* adjust_level that moves to the new level and reports the one it left.
adjust_level_stale(lv, cur, bw) ==
    LET new_level == get_level_index(lv, bw)
    IN  IF new_level = -1 THEN [cur |-> cur, ret |-> Panic]
        ELSE IF cur # new_level
             THEN [cur |-> new_level, ret |-> SomeLevel(cur)]
             ELSE [cur |-> cur, ret |-> None]

\* SimpleProfile::adjust_level: [cur, ret] after the call from index cur.
adjust_level(lv, cur, bw) ==
    LET new_level == get_level_index(lv, bw)
    IN  IF new_level = -1 THEN [cur |-> cur, ret |-> Panic]
        ELSE IF cur # new_level
             THEN [cur |-> new_level, ret |-> SomeLevel(new_level)]
             ELSE [cur |-> cur, ret |-> None]

\* advance_level that compares with levels.len() instead of len() - 1.
advance_level_past_end(lv, cur, overflow_checks) ==
    IF cur < Len(lv)
    THEN [cur |-> cur + 1, ret |-> SomeLevel(cur + 1)]
    ELSE [cur |-> cur, ret |-> None]

\* SimpleProfile::advance_level.  levels.len() - 1 underflows on an empty
\* list: with overflow checks the subtraction panics, without them it wraps
\* to usize::MAX and the index moves to 1.
advance_level(lv, cur, overflow_checks) ==
    IF Len(lv) = 0
    THEN IF overflow_checks THEN [cur |-> cur, ret |-> Panic]
         ELSE [cur |-> cur + 1, ret |-> SomeLevel(cur + 1)]
    ELSE IF cur < Len(lv) - 1
         THEN [cur |-> cur + 1, ret |-> SomeLevel(cur + 1)]
         ELSE [cur |-> cur, ret |-> None]

\* ------------------------------------------------------------------------
\* Profile
\* ------------------------------------------------------------------------

\* records[level] with the slice's bounds check: Panic when out of bounds.
RecordAt(recs, level) ==
    IF level >= 0 /\ level < Len(recs) THEN SomeRecord(level, recs[level + 1])
    ELSE Panic

\* Profile::nth
nth(recs, level) ==
    IF level >= 0 /\ level < Len(recs) THEN Value(recs[level + 1].config)
    ELSE Panic

\* Profile::init_config: first().expect("no configuration in profile")
init_config(recs) ==
    IF Len(recs) = 0 THEN Panic ELSE Value(recs[1].config)

\* Profile::last_config: last().expect("no configuration in profile")
last_config(recs) ==
    IF Len(recs) = 0 THEN Panic ELSE Value(recs[Len(recs)].config)

\* Profile::current_config
current_config(recs, cur) == nth(recs, cur)

\* The vector built from rows: record k (0-based) carries payload k.
RecordsOf(rows) == [k \in 1..Len(rows) |-> Record(rows[k], k - 1)]

\* tests::create_profile(i): thresholds 0.0, 1.0, .. and payloads 0, 1, ..
create_profile(i) == [k \in 1..i |-> Record(Whole(k - 1), k - 1)]

\* The levels of a vector of records: vec.iter().map(|r| r.bandwidth).
Simple(vec) == [k \in 1..Len(vec) |-> vec[k].bandwidth]

\* The state after a call that returned ret and left the index at cur.
Finish(op, bw, cur, ret) ==
    /\ current' = cur
    /\ last' = Call(op, bw, current, ret)
    /\ pstate' = IF ret.tag = "Panic" THEN "panicked" ELSE "ready"
    /\ UNCHANGED <<records, levels, ctor>>
    /\ UNCHANGED svars

\* The mutating calls of tests::test_profile_simple_get, in order:
\* adjust_config(4.0), then adjust_config(1.5).  Step 0 is the fresh table,
\* step k the state after the first k calls; 3 is any other history.
TestStep(step, op, bw) ==
    IF step = 0 /\ op = "adjust" /\ bw = Whole(4) THEN 1
    ELSE IF step = 1 /\ op = "adjust" /\ bw = Halves(1) THEN 2
    ELSE 3

\* Profile::_with_vec on the vector of create_profile(i).
WithVec(i) ==
    /\ pstate = "unloaded"
    /\ LET vec == create_profile(i)
       IN  /\ records' = vec
           /\ levels' = Simple(vec)
    /\ current' = 0
    /\ pstate' = "ready"
    /\ last' = Call("with_vec", i, 0, None)
    /\ ctor' = "with_vec"
    /\ UNCHANGED <<advStart, advCount, test_step>>
    /\ UNCHANGED svars

\* Profile::new on a file that exists: every row deserializes or the load
\* panics; no row count is checked.
New(file) ==
    /\ pstate = "unloaded"
    /\ IF \E k \in 1..Len(file) : file[k] = Malformed
       THEN /\ pstate' = "panicked"
            /\ last' = Call("new", Len(file), 0, Panic)
            /\ UNCHANGED <<records, levels, current>>
       ELSE /\ records' = RecordsOf(file)
            /\ levels' = Simple(RecordsOf(file))
            /\ current' = 0
            /\ pstate' = "ready"
            /\ last' = Call("new", Len(file), 0, None)
    /\ ctor' = "new"
    /\ UNCHANGED <<advStart, advCount, test_step>>
    /\ UNCHANGED svars

\* Profile::new on a path with no file: from_path(..).expect(&errmsg).
NewMissing ==
    /\ pstate = "unloaded"
    /\ pstate' = "panicked"
    /\ last' = Call("new", -1, 0, Panic)
    /\ ctor' = "new"
    /\ UNCHANGED <<records, levels, current, advStart, advCount, test_step>>
    /\ UNCHANGED svars

\* Profile::adjust_config
AdjustConfig(bw) ==
    /\ pstate = "ready"
    /\ LET r == adjust_level(levels, current, bw)
       IN  Finish("adjust", bw, r.cur,
                  IF r.ret.tag = "Some" THEN RecordAt(records, r.ret.level)
                  ELSE r.ret)
    /\ advStart' = 0
    /\ advCount' = 0
    /\ test_step' = TestStep(test_step, "adjust", bw)

\* Profile::advance_config
AdvanceConfig ==
    /\ pstate = "ready"
    /\ \E overflow_checks \in BOOLEAN :
         LET r == advance_level(levels, current, overflow_checks)
         IN  /\ Finish("advance", 0, r.cur,
                       IF r.ret.tag = "Some" THEN RecordAt(records, r.ret.level)
                       ELSE r.ret)
             /\ advStart' = IF last.op = "advance" THEN advStart ELSE current
             /\ advCount' = (IF last.op = "advance" THEN advCount ELSE 0)
                            + (IF r.ret.tag = "Some" THEN 1 ELSE 0)
    /\ test_step' = TestStep(test_step, "advance", 0)

\* Profile::init_config
InitConfig ==
    /\ pstate = "ready"
    /\ Finish("init", 0, current, init_config(records))
    /\ advStart' = 0
    /\ advCount' = 0
    /\ UNCHANGED test_step

\* Profile::last_config
LastConfig ==
    /\ pstate = "ready"
    /\ Finish("last", 0, current, last_config(records))
    /\ advStart' = 0
    /\ advCount' = 0
    /\ UNCHANGED test_step

\* Profile::current_config
CurrentConfig ==
    /\ pstate = "ready"
    /\ Finish("current", 0, current, current_config(records, current))
    /\ advStart' = 0
    /\ advCount' = 0
    /\ UNCHANGED test_step

InitProfile ==
    /\ pstate = "unloaded"
    /\ ctor = "none"
    /\ test_step = 0
    /\ records = <<>>
    /\ levels = <<>>
    /\ current = 0
    /\ last = Call("none", 0, 0, None)
    /\ advStart = 0
    /\ advCount = 0

NextProfile ==
    \/ \E i \in 0..MaxLevels : WithVec(i)
    \/ pstate = "unloaded" /\ \E file \in Files : New(file)
    \/ NewMissing
    \/ \E bw \in Bandwidths : AdjustConfig(bw)
    \/ AdvanceConfig
    \/ InitConfig
    \/ LastConfig
    \/ CurrentConfig


\* ------------------------------------------------------------------------
\* Bytes.  A run of bytes is a segment [f, lo, hi): the bytes lo .. hi-1 of
\* the encoding of item f.  A byte string is a sequence of segments in which
\* no two neighbours continue each other (Norm).
\* ------------------------------------------------------------------------

\* Socket::INITIAL_CAPACITY and Socket::BACKPRESSURE_BOUNDARY, in bytes.
INITIAL_CAPACITY == 16384
BACKPRESSURE_BOUNDARY == INITIAL_CAPACITY

\* The items (AsDatum) of the model and the length of their encodings.
SmallLen == 1
BigLen == 16384
SmallItem == "small"
BigItem == "big"
Items == {SmallItem, BigItem}
EncodedLen(it) == IF it = SmallItem THEN SmallLen ELSE BigLen

\* The most frames accepted, and the most transport writes and reads that
\* move bytes, in one run.
MaxFrames == 3
MaxWrites == 3
MaxReads == 3

\* The most polls that return the end of the sequence in one run.
MaxEnds == 2

Seg(f, lo, hi) == [f |-> f, lo |-> lo, hi |-> hi]

\* BytesMut::len
RECURSIVE ByteLen(_)
ByteLen(s) ==
    IF s = <<>> THEN 0 ELSE (Head(s).hi - Head(s).lo) + ByteLen(Tail(s))

\* The first n bytes of s (n <= ByteLen(s)).
RECURSIVE TakeBytes(_, _)
TakeBytes(s, n) ==
    IF n = 0 \/ s = <<>> THEN <<>>
    ELSE LET h == Head(s)
             k == h.hi - h.lo
         IN  IF n >= k THEN <<h>> \o TakeBytes(Tail(s), n - k)
             ELSE <<Seg(h.f, h.lo, h.lo + n)>>

\* BytesMut::split_to(n): what stays in s after its first n bytes are taken.
RECURSIVE DropBytes(_, _)
DropBytes(s, n) ==
    IF n = 0 \/ s = <<>> THEN s
    ELSE LET h == Head(s)
             k == h.hi - h.lo
         IN  IF n >= k THEN DropBytes(Tail(s), n - k)
             ELSE <<Seg(h.f, h.lo + n, h.hi)>> \o Tail(s)

\* The same bytes with neighbouring segments that continue each other joined.
RECURSIVE Norm(_)
Norm(s) ==
    IF Len(s) <= 1 THEN s
    ELSE LET a == s[1]
             b == s[2]
         IN  IF a.f = b.f /\ a.hi = b.lo
             THEN Norm(<<Seg(a.f, a.lo, b.hi)>> \o Tail(Tail(s)))
             ELSE <<a>> \o Norm(Tail(s))

\* Bytes b appended to bytes a.
Extend(a, b) == Norm(a \o b)

\* ------------------------------------------------------------------------
\* AsCodec (the codec lives outside these sources: the capability of the
\* design, encode / decode / decode at end of stream)
\* ------------------------------------------------------------------------

\* The bytes Encoder::encode appends for item it.
Encoding(it) == <<Seg(it, 0, EncodedLen(it))>>

\* Decoder::decode on buffer buf: a whole encoding at the front is taken off
\* and its item returned; a front that is the start of one is incomplete
\* (None); any other front is an error.
Decode(buf) ==
    IF buf = <<>> THEN [tag |-> "None", item |-> "", rest |-> buf]
    ELSE LET h == Head(buf)
         IN  IF h.lo # 0 THEN [tag |-> "Err", item |-> "", rest |-> buf]
             ELSE IF h.hi = EncodedLen(h.f)
                  THEN [tag |-> "Some", item |-> h.f, rest |-> Tail(buf)]
                  ELSE [tag |-> "None", item |-> "", rest |-> buf]

\* Decoder::decode_eof: decode, and bytes that remain without making a frame
\* are an error.
DecodeEof(buf) ==
    LET d == Decode(buf)
    IN  IF d.tag = "None" /\ buf # <<>>
        THEN [tag |-> "Err", item |-> "", rest |-> buf]
        ELSE d

\* The decoders a FramedRead<T, D> is built with: the repository's codec, or
\* any D: Decoder.
Decoders == {"AsCodec", "any"}

\* What any decoder may answer on buffer buf, in decode and in decode_eof
\* alike: no frame, an error, or a frame made of some of the bytes at the
\* front; an empty buffer makes no frame.
AnyDecode(buf) ==
    IF buf = <<>> THEN {[tag |-> "None", item |-> "", rest |-> buf]}
    ELSE {[tag |-> "None", item |-> "", rest |-> buf],
          [tag |-> "Err", item |-> "", rest |-> buf]}
         \cup {[tag |-> "Some", item |-> Head(buf).f, rest |-> DropBytes(buf, k)] :
                  k \in {n \in {SmallLen, ByteLen(buf)} : n <= ByteLen(buf)}}

\* A reader that calls decode at end of stream too, never decode_eof.
Decoded_never_eof(dec, buf, atEof) ==
    IF dec = "AsCodec" THEN {Decode(buf)} ELSE AnyDecode(buf)

\* The answers decoder dec may give on buffer buf: of decode_eof when atEof,
\* of decode otherwise.
Decoded(dec, buf, atEof) ==
    IF dec = "AsCodec"
    THEN {IF atEof THEN DecodeEof(buf) ELSE Decode(buf)}
    ELSE AnyDecode(buf)

\* ------------------------------------------------------------------------
\* Socket (the sink) and its transport
\* ------------------------------------------------------------------------

\* A call on the sink: the operation, its item, whether it offers again the
\* item the call before it rejected, the buffer length when it began,
\* whether it ran poll_complete, the transport writes it made, the bytes it
\* added to the counter, and its result ("Pending" while it runs).
SinkCall(op, it, retry, len0, flushed, writes, added, ret) ==
    [op |-> op, item |-> it, retry |-> retry, len0 |-> len0,
     flushed |-> flushed, writes |-> writes, added |-> added, ret |-> ret]

\* The call before rejected item it.
Rejected(it) ==
    /\ scall.op = "start_send"
    /\ scall.ret = "NotReady"
    /\ scall.item = it

Errors == {"ErrIo", "ErrWriteZero", "ErrEncode"}

\* The test of the boundary with the boundary of the comment above it, 8 KiB.
AtBoundary_8k(len) == len >= INITIAL_CAPACITY \div 2

\* The test of the boundary that lets a buffer of exactly the boundary pass.
AtBoundary_over(len) == len > BACKPRESSURE_BOUNDARY

\* self.buffer.len() >= Socket::BACKPRESSURE_BOUNDARY
AtBoundary(len) == len >= BACKPRESSURE_BOUNDARY

\* split_to that leaves the last written byte in the buffer.
split_to_short(buf, n) == DropBytes(buf, n - 1)

\* self.buffer.split_to(n), its result dropped: the buffer after it.
split_to(buf, n) == DropBytes(buf, n)

\* The state of the sink once call c has returned ret: an error tears the
\* connection down.
Done(c, ret) ==
    /\ scall' = [c EXCEPT !.ret = ret]
    /\ sstate' = IF ret \in Errors THEN "failed" ELSE "idle"

\* start_send, the encode and the return after it: the encoder appends
\* the item's bytes and the call returns Ready, or the encoder fails and the
\* call returns its error.
Encode(buf, c) ==
    \E ok \in BOOLEAN :
        IF ok
        THEN /\ buffer' = Extend(buf, Encoding(c.item))
             /\ accepted' = Append(accepted, c.item)
             /\ Done(c, "Ready")
        ELSE /\ buffer' = buf
             /\ accepted' = accepted
             /\ Done(c, "ErrEncode")

\* start_send that rejects after every flush attempt, whatever the flush
\* left in the buffer.
Admit_rejects(buf, c) ==
    /\ buffer' = buf
    /\ accepted' = accepted
    /\ Done(c, "NotReady")

\* start_send that encodes after its flush attempt whatever the flush left
\* in the buffer.
Admit_encodes(buf, c) == Encode(buf, c)

\* start_send after its poll_complete returned without error: a buffer
\* still at the boundary rejects the item, a shorter one takes it.
Admit(buf, c) ==
    IF AtBoundary(ByteLen(buf))
    THEN /\ buffer' = buf
         /\ accepted' = accepted
         /\ Done(c, "NotReady")
    ELSE Encode(buf, c)

\* A start_send that drops the result of its poll_complete, errors
\* included, and goes on to the boundary test.
Return_drops_error(buf, c, res) ==
    IF c.op = "poll_complete"
    THEN /\ buffer' = buf
         /\ accepted' = accepted
         /\ Done(c, res)
    ELSE Admit(buf, c)

\* poll_complete returns res to its caller, the buffer being buf: to the
\* user, or into start_send, whose `?` passes an error on.
Return(buf, c, res) ==
    IF c.op = "poll_complete" \/ res \in Errors
    THEN /\ buffer' = buf
         /\ accepted' = accepted
         /\ Done(c, res)
    ELSE Admit(buf, c)

\* Socket::start_send: below the boundary it encodes at once; at or above
\* it the call enters poll_complete first.
StartSend(it) ==
    /\ sstate = "idle"
    /\ Len(accepted) < MaxFrames
    /\ IF AtBoundary(ByteLen(buffer))
       THEN /\ scall' = SinkCall("start_send", it, Rejected(it),
                                 ByteLen(buffer), TRUE, 0, 0, "Pending")
            /\ sstate' = "flushing"
            /\ UNCHANGED <<buffer, accepted>>
       ELSE Encode(buffer, SinkCall("start_send", it, Rejected(it),
                                    ByteLen(buffer), FALSE, 0, 0, "Pending"))
    /\ UNCHANGED <<bytes, sent, nwrites>>
    /\ UNCHANGED <<readervars, pvars>>

\* Socket::poll_complete called by the user.
PollComplete ==
    /\ sstate = "idle"
    /\ scall' = SinkCall("poll_complete", "", FALSE, ByteLen(buffer), TRUE,
                         0, 0, "Pending")
    /\ sstate' = "flushing"
    /\ UNCHANGED <<buffer, bytes, accepted, sent, nwrites>>
    /\ UNCHANGED <<readervars, pvars>>

\* The byte counts a transport call may move out of avail bytes.
Sizes(avail) == { n \in {SmallLen, BigLen, avail} : n >= 1 /\ n <= avail }

\* A write that counts the bytes offered to the transport, not the bytes it
\* took.
WriteSome_counts_offered(n) ==
    /\ sstate = "flushing"
    /\ buffer # <<>>
    /\ nwrites < MaxWrites
    /\ n \in Sizes(ByteLen(buffer))
    /\ bytes' = bytes + ByteLen(buffer)
    /\ sent' = Extend(sent, TakeBytes(buffer, n))
    /\ buffer' = split_to(buffer, n)
    /\ nwrites' = nwrites + 1
    /\ scall' = [scall EXCEPT !.writes = @ + 1, !.added = @ + n]
    /\ UNCHANGED <<sstate, accepted>>
    /\ UNCHANGED <<readervars, pvars>>

\* One turn of the loop of poll_complete, the buffer not empty: net.write
\* takes n bytes, which are counted and split off the buffer.
WriteSome(n) ==
    /\ sstate = "flushing"
    /\ buffer # <<>>
    /\ nwrites < MaxWrites
    /\ n \in Sizes(ByteLen(buffer))
    /\ bytes' = bytes + n
    /\ sent' = Extend(sent, TakeBytes(buffer, n))
    /\ buffer' = split_to(buffer, n)
    /\ nwrites' = nwrites + 1
    /\ scall' = [scall EXCEPT !.writes = @ + 1, !.added = @ + n]
    /\ UNCHANGED <<sstate, accepted>>
    /\ UNCHANGED <<readervars, pvars>>

\* net.write returns 0 with the buffer not empty: the 0 is counted, and the
\* call fails with WriteZero.
WriteZero ==
    /\ sstate = "flushing"
    /\ buffer # <<>>
    /\ bytes' = bytes + 0
    /\ Return(buffer, [scall EXCEPT !.writes = @ + 1], "ErrWriteZero")
    /\ UNCHANGED <<sent, nwrites>>
    /\ UNCHANGED <<readervars, pvars>>

\* net.write would block: try_nb! returns NotReady out of poll_complete.
WriteWouldBlock ==
    /\ sstate = "flushing"
    /\ buffer # <<>>
    /\ Return(buffer, [scall EXCEPT !.writes = @ + 1], "NotReady")
    /\ UNCHANGED <<bytes, sent, nwrites>>
    /\ UNCHANGED <<readervars, pvars>>

\* net.write fails: try_nb! returns the error out of poll_complete.
WriteError ==
    /\ sstate = "flushing"
    /\ buffer # <<>>
    /\ Return(buffer, [scall EXCEPT !.writes = @ + 1], "ErrIo")
    /\ UNCHANGED <<bytes, sent, nwrites>>
    /\ UNCHANGED <<readervars, pvars>>

\* A poll_complete that goes on to net.flush and returns with bytes still
\* in the buffer (an `if` where the `while` is).
NetFlush_leaves_bytes(res) ==
    /\ sstate = "flushing"
    /\ Return(buffer, scall, res)
    /\ UNCHANGED <<bytes, sent, nwrites>>
    /\ UNCHANGED <<readervars, pvars>>

\* The buffer is empty: net.flush, and poll_complete returns Ready, or
\* NotReady when the flush would block, or its error.
NetFlush(res) ==
    /\ sstate = "flushing"
    /\ buffer = <<>>
    /\ Return(buffer, scall, res)
    /\ UNCHANGED <<bytes, sent, nwrites>>
    /\ UNCHANGED <<readervars, pvars>>

\* One turn of the loop once MaxWrites writes were counted: net.write takes
\* all the bytes offered, which are counted and split off the buffer.
WriteRest ==
    /\ sstate = "flushing"
    /\ buffer # <<>>
    /\ nwrites >= MaxWrites
    /\ bytes' = bytes + ByteLen(buffer)
    /\ sent' = Extend(sent, buffer)
    /\ buffer' = split_to(buffer, ByteLen(buffer))
    /\ scall' = [scall EXCEPT !.writes = @ + 1, !.added = @ + ByteLen(buffer)]
    /\ UNCHANGED <<sstate, accepted, nwrites>>
    /\ UNCHANGED <<readervars, pvars>>

\* The caller offers again the item its last start_send rejected.
Retry ==
    /\ scall.op = "start_send"
    /\ scall.ret = "NotReady"
    /\ StartSend(scall.item)

\* The caller offers an item, its last call not being a rejection.
NewSend(it) ==
    /\ ~(scall.op = "start_send" /\ scall.ret = "NotReady")
    /\ StartSend(it)

\* The caller polls poll_complete, its last call not being a rejection (a
\* rejected item is offered again first).
Flush ==
    /\ ~(scall.op = "start_send" /\ scall.ret = "NotReady")
    /\ PollComplete

\* The owner drops the Socket between two calls: the write half closes, and
\* what the buffer still holds is never written.
Close ==
    /\ sstate = "idle"
    /\ sstate' = "closed"
    /\ UNCHANGED <<buffer, bytes, scall, accepted, sent, nwrites>>
    /\ UNCHANGED <<readervars, pvars>>

\* ------------------------------------------------------------------------
\* FramedRead (the reader at the other end of the transport)
\* ------------------------------------------------------------------------

\* The bytes written and not yet read.
Wire == DropBytes(sent, rpos)

\* The write half is gone: the reader's transport ends after the wire.
WriteHalfGone == sstate \in {"closed", "failed"}

\* The record made when eof is set: how many items were yielded and how many
\* bytes the buffer held by then.  NoEof before.
AtEof(n, len) == [yielded |-> n, bytes |-> len]
NoEof == AtEof(-1, -1)

\* What a poll returned: "Some" with its item, "End" (Ready(None)),
\* "NotReady", "ErrIo", "ErrDecode"; "Pending" while it runs, "None" before
\* any poll.
Polled(ret, it) == [ret |-> ret, item |-> it]

\* poll returns ret (and item it when it yields one).
PollDone(ret, it) ==
    /\ rlast' = Polled(ret, it)
    /\ rstate' = "idle"
    /\ yielded' = IF ret = "Some" THEN Append(yielded, it) ELSE yielded
    /\ nends' = IF ret = "End" THEN nends + 1 ELSE nends

\* FramedRead::poll is called (no more once MaxEnds polls have returned the
\* end of the sequence).
Poll ==
    /\ rstate = "idle"
    /\ nends < MaxEnds
    /\ rstate' = "polling"
    /\ rlast' = Polled("Pending", "")
    /\ UNCHANGED <<rpos, eof, is_readable, rbuffer, yielded, nreads>>
    /\ UNCHANGED <<decoder, ateof, nends>>
    /\ UNCHANGED <<sinkvars, pvars>>

\* A readable branch that, having reported the end of the sequence, clears
\* both flags and so reads the transport again at the next poll.
PollDecode_rearms ==
    /\ rstate = "polling"
    /\ is_readable
    /\ \E d \in Decoded(decoder, rbuffer, eof) :
           /\ eof \/ d.tag # "None"
           /\ d.tag = "Some" => Len(yielded) < MaxFrames
           /\ rbuffer' = d.rest
           /\ eof' = (eof /\ d.tag # "None")
           /\ is_readable' = (d.tag # "None")
           /\ PollDone(CASE d.tag = "Some" -> "Some"
                         [] d.tag = "None" -> "End"
                         [] d.tag = "Err"  -> "ErrDecode", d.item)
    /\ UNCHANGED <<rpos, nreads, decoder, ateof>>
    /\ UNCHANGED <<sinkvars, pvars>>

\* A readable branch that clears eof when the decode at end of stream made
\* a frame.
PollDecode_frame_clears_eof ==
    /\ rstate = "polling"
    /\ is_readable
    /\ \E d \in Decoded(decoder, rbuffer, eof) :
           /\ eof \/ d.tag # "None"
           /\ d.tag = "Some" => Len(yielded) < MaxFrames
           /\ rbuffer' = d.rest
           /\ eof' = (eof /\ d.tag # "Some")
           /\ PollDone(CASE d.tag = "Some" -> "Some"
                         [] d.tag = "None" -> "End"
                         [] d.tag = "Err"  -> "ErrDecode", d.item)
    /\ UNCHANGED <<rpos, is_readable, nreads, decoder, ateof>>
    /\ UNCHANGED <<sinkvars, pvars>>

\* A readable branch that clears is_readable whenever the decoder made no
\* frame, at end of stream as before it.
PollDecode_none_unreadable ==
    /\ rstate = "polling"
    /\ is_readable
    /\ \E d \in Decoded(decoder, rbuffer, eof) :
           /\ eof \/ d.tag # "None"
           /\ d.tag = "Some" => Len(yielded) < MaxFrames
           /\ rbuffer' = d.rest
           /\ is_readable' = (d.tag # "None")
           /\ PollDone(CASE d.tag = "Some" -> "Some"
                         [] d.tag = "None" -> "End"
                         [] d.tag = "Err"  -> "ErrDecode", d.item)
    /\ UNCHANGED <<rpos, eof, nreads, decoder, ateof>>
    /\ UNCHANGED <<sinkvars, pvars>>

\* One turn of the loop of poll that ends in the readable branch: at end of
\* stream decode_eof's answer is returned whatever it is; before it a decoded
\* frame or a decode error is returned.  (At most MaxFrames frames are
\* yielded in one run.)
PollDecode ==
    /\ rstate = "polling"
    /\ is_readable
    /\ \E d \in Decoded(decoder, rbuffer, eof) :
           /\ eof \/ d.tag # "None"
           /\ d.tag = "Some" => Len(yielded) < MaxFrames
           /\ rbuffer' = d.rest
           /\ PollDone(CASE d.tag = "Some" -> "Some"
                         [] d.tag = "None" -> "End"
                         [] d.tag = "Err"  -> "ErrDecode", d.item)
    /\ UNCHANGED <<rpos, eof, is_readable, nreads, decoder, ateof>>
    /\ UNCHANGED <<sinkvars, pvars>>

\* The reader reaches the read: it was not readable, or decode found no whole
\* frame (and is_readable is cleared).
AtRead ==
    /\ rstate = "polling"
    /\ \/ ~is_readable
       \/ ~eof /\ \E d \in Decoded(decoder, rbuffer, FALSE) : d.tag = "None"

\* assert!(!self.eof) would fail: the read is reached at end of stream.
AssertFails == AtRead /\ eof

\* read_buf brings n bytes of the wire: readable again, loop.
ReadSome(n) ==
    /\ AtRead
    /\ ~eof
    /\ nreads < MaxReads
    /\ n \in Sizes(ByteLen(Wire))
    /\ rbuffer' = Extend(rbuffer, TakeBytes(Wire, n))
    /\ rpos' = rpos + n
    /\ nreads' = nreads + 1
    /\ is_readable' = TRUE
    /\ UNCHANGED <<rstate, eof, rlast, yielded, decoder, ateof, nends>>
    /\ UNCHANGED <<sinkvars, pvars>>

\* read_buf returns 0: the wire is empty and the write half is gone.  The
\* end of stream is flagged, readable set, loop.
ReadEof ==
    /\ AtRead
    /\ ~eof
    /\ Wire = <<>>
    /\ WriteHalfGone
    /\ eof' = TRUE
    /\ is_readable' = TRUE
    /\ ateof' = AtEof(Len(yielded), ByteLen(rbuffer))
    /\ UNCHANGED <<rpos, rstate, rbuffer, rlast, yielded, nreads, decoder, nends>>
    /\ UNCHANGED <<sinkvars, pvars>>

\* A would-block taken for the end of the stream.
ReadWouldBlock_flags_eof ==
    /\ AtRead
    /\ ~eof
    /\ eof' = TRUE
    /\ is_readable' = TRUE
    /\ ateof' = AtEof(Len(yielded), ByteLen(rbuffer))
    /\ UNCHANGED <<rpos, rstate, rbuffer, rlast, yielded, nreads, decoder, nends>>
    /\ UNCHANGED <<sinkvars, pvars>>

\* read_buf would block: try_ready! returns NotReady out of poll, readable
\* cleared.
ReadWouldBlock ==
    /\ AtRead
    /\ ~eof
    /\ is_readable' = FALSE
    /\ PollDone("NotReady", "")
    /\ UNCHANGED <<rpos, eof, rbuffer, nreads, decoder, ateof>>
    /\ UNCHANGED <<sinkvars, pvars>>

\* read_buf fails: try_ready! returns the error out of poll.
ReadError ==
    /\ AtRead
    /\ ~eof
    /\ is_readable' = FALSE
    /\ PollDone("ErrIo", "")
    /\ UNCHANGED <<rpos, eof, rbuffer, nreads, decoder, ateof>>
    /\ UNCHANGED <<sinkvars, pvars>>

\* The chunks the remote end may write: a whole small frame, a whole big
\* one, and the first bytes of a big one.
PeerChunks ==
    {Encoding(SmallItem), Encoding(BigItem), <<Seg(BigItem, 0, SmallLen)>>}

\* The remote end of the reader's transport writes chunk b (the reader's
\* inner: T taken by itself, whatever writes to it).
PeerWrite(b) ==
    /\ sstate = "idle"
    /\ nwrites < MaxWrites
    /\ sent' = Extend(sent, b)
    /\ nwrites' = nwrites + 1
    /\ UNCHANGED <<sstate, buffer, bytes, scall, accepted>>
    /\ UNCHANGED <<readervars, pvars>>

\* Socket::new, and FramedRead::new with decoder dec.
InitConnection(dec) ==
    /\ sstate = "idle"
    /\ buffer = <<>>
    /\ bytes = 0
    /\ scall = SinkCall("none", "", FALSE, 0, FALSE, 0, 0, "None")
    /\ accepted = <<>>
    /\ sent = <<>>
    /\ nwrites = 0
    /\ rpos = 0
    /\ rstate = "idle"
    /\ eof = FALSE
    /\ is_readable = FALSE
    /\ rbuffer = <<>>
    /\ rlast = Polled("None", "")
    /\ yielded = <<>>
    /\ nreads = 0
    /\ decoder = dec
    /\ ateof = NoEof
    /\ nends = 0

\* A connection of the repository: the reader decodes with AsCodec.
InitSocket == InitConnection("AsCodec")

\* A FramedRead<T, D> with either decoder.
InitReader == \E dec \in Decoders : InitConnection(dec)

NextSocket ==
    \/ \E it \in Items : StartSend(it)
    \/ PollComplete
    \/ \E n \in Sizes(ByteLen(buffer)) : WriteSome(n)
    \/ WriteZero
    \/ WriteWouldBlock
    \/ WriteError
    \/ \E res \in {"Ready", "NotReady", "ErrIo"} : NetFlush(res)
    \/ Close
    \/ Poll
    \/ PollDecode
    \/ \E n \in Sizes(ByteLen(Wire)) : ReadSome(n)
    \/ ReadEof
    \/ ReadWouldBlock
    \/ ReadError

\* The sink with a caller that offers a rejected item again and a transport
\* that does not fail.
NextLive ==
    \/ \E it \in Items : NewSend(it)
    \/ Retry
    \/ Flush
    \/ \E n \in Sizes(ByteLen(buffer)) : WriteSome(n)
    \/ WriteRest
    \/ WriteWouldBlock
    \/ NetFlush("Ready")
    \/ NetFlush("NotReady")

\* The transport takes bytes.
TransportTakes == (\E n \in Sizes(ByteLen(buffer)) : WriteSome(n)) \/ WriteRest

\* A call that is running takes its next step; the caller polls
\* poll_complete again and again, and offers a rejected item again and
\* again; the transport, written to again and again, takes bytes in the end,
\* and flushed again and again, completes its flush in the end.
LiveFairness ==
    /\ WF_vars(sstate = "flushing" /\ NextLive)
    /\ SF_vars(Flush)
    /\ SF_vars(Retry)
    /\ SF_vars(TransportTakes)
    /\ SF_vars(NetFlush("Ready"))

\* The reader and the remote end of its transport.
NextReader ==
    \/ \E b \in PeerChunks : PeerWrite(b)
    \/ Close
    \/ Poll
    \/ PollDecode
    \/ \E n \in Sizes(ByteLen(Wire)) : ReadSome(n)
    \/ ReadEof
    \/ ReadWouldBlock
    \/ ReadError

\* ------------------------------------------------------------------------
\* Specifications
\* ------------------------------------------------------------------------

Init == InitProfile /\ InitSocket

\* The state after construction, the reader built with either decoder.
InitEither == InitProfile /\ InitReader

\* The profile alone.
SpecProfile == Init /\ [][NextProfile]_vars

\* A connection alone: the sink, the transport and the reader.
SpecSocket == Init /\ [][NextSocket]_vars

\* The sink alone, its caller persistent and its transport fair.
SpecLive == Init /\ [][NextLive]_vars /\ LiveFairness

\* A reader alone, with either decoder, fed by the remote end.
SpecReader == InitEither /\ [][NextReader]_vars

\* ------------------------------------------------------------------------
\* Claims about the profile
\* ------------------------------------------------------------------------

\* The bandwidths that compare.
Comparable == Bandwidths \ {NaN}

\* i is the largest 0-based index of T whose threshold is at most b.
IsLargestAtMost(T, b, i) ==
    /\ i \in 0..(Len(T) - 1)
    /\ T[i + 1] <= b
    /\ \A j \in (i + 1)..(Len(T) - 1) : T[j + 1] > b

\* C1: on a non-empty strictly ascending threshold list, for every bandwidth
\* b at or above the first threshold, get_level_index(b) is the largest index
\* whose threshold is at most b (b on a threshold, between two, or above the
\* last), and an adjust with such a b leaves the profile at that index.
C1_LocateLargestAtMost ==
    (pstate # "unloaded" /\ Len(levels) > 0 /\ StrictlyAscending(levels)) =>
        /\ \A b \in Comparable :
               b >= levels[1] =>
                   IsLargestAtMost(levels, b, get_level_index(levels, b))
        /\ (last.op = "adjust" /\ last.bw # NaN /\ last.bw >= levels[1]) =>
               IsLargestAtMost(levels, last.bw, current)

\* C1 witness: an adjust with a bandwidth strictly between the second and the
\* third threshold moved the profile to index 1.
C1_Witness ==
    /\ last.op = "adjust"
    /\ Len(levels) >= 3
    /\ StrictlyAscending(levels)
    /\ last.bw # NaN
    /\ levels[2] < last.bw
    /\ last.bw < levels[3]
    /\ last.prev # 1
    /\ current = 1

\* The table of the spec's example: thresholds 1.0, 2.0, 3.0, 4.0 with
\* payloads A, B, C, D (0, 1, 2, 3).
ExampleTable ==
    /\ levels = <<Whole(1), Whole(2), Whole(3), Whole(4)>>
    /\ records = RecordsOf(levels)

\* The table of the repository's test: create_profile(4).
TestTable ==
    /\ records = create_profile(4)
    /\ levels = Simple(records)

C3_BelowMinimumIsLevelZero ==
    (pstate # "unloaded" /\ Len(levels) > 0 /\ Ascending(levels)) =>
        /\ \A b \in Comparable :
               b < levels[1] => get_level_index(levels, b) = 0
        /\ (last.op = "adjust" /\ last.bw # NaN /\ last.bw < levels[1]) =>
               /\ current = 0
               /\ last.prev = 0 => last.ret = None
               /\ last.prev # 0 => last.ret = SomeRecord(0, records[1])

\* C3 witness: an adjust below the first threshold brought the profile down
\* from a higher level to level 0.
C3_Witness ==
    /\ last.op = "adjust"
    /\ Len(levels) >= 2
    /\ Ascending(levels)
    /\ last.bw # NaN
    /\ last.bw < levels[1]
    /\ last.prev > 0
    /\ last.ret.tag = "Some"
    /\ last.ret.level = 0

\* The state after an adjust that returned, on a non-empty table.
C4_AdjustResult ==
    (last.op = "adjust" /\ last.ret.tag # "Panic" /\ Len(levels) > 0) =>
        LET loc == get_level_index(levels, last.bw)
        IN  /\ current = loc
            /\ (last.ret.tag = "Some") <=> (loc # last.prev)
            /\ last.ret.tag = "Some" => last.ret = SomeRecord(loc, records[loc + 1])
            /\ last.ret.tag # "Some" => (last.ret = None /\ current = last.prev)
            /\ Len(levels) = 1 => last.ret = None

\* An adjust that repeats the bandwidth of the adjust just before it.
C4_RepeatedAdjust ==
    (last.op = "adjust" /\ last.ret.tag # "Panic" /\ Len(levels) > 0
        /\ last'.op = "adjust" /\ last'.bw = last.bw) =>
            (last'.ret = None /\ current' = current)

\* C4: on a non-empty table, from every index and for every comparable
\* bandwidth b, adjust(b) returns the new index and moves to
\* get_level_index(b) exactly when that differs from the current index, and
\* otherwise returns nothing and stays; so the index after it is
\* get_level_index(b), an immediate repeat returns nothing, and a table of one
\* record never reports a change.
C4_AdjustIdempotent == []C4_AdjustResult /\ [][C4_RepeatedAdjust]_pvars

\* C4 witness: an adjust returned nothing because the profile was already at
\* the level of its bandwidth, a level other than 0, on a table of several.
C4_Witness ==
    /\ last.op = "adjust"
    /\ Len(levels) >= 3
    /\ last.ret = None
    /\ last.prev = current
    /\ current >= 1

\* C5: on a non-empty table of n levels an advance that returns an index
\* raises the index by exactly 1 and returns the record at it; it returns
\* nothing exactly at index n-1, leaving the index alone; a run of advance
\* calls begun at index c succeeds exactly n-1-c times before that.
C5_AdvanceMonotone ==
    (last.op = "advance" /\ Len(levels) > 0) =>
        LET n == Len(levels)
        IN  /\ last.ret.tag \in {"Some", "None"}
            /\ (last.ret.tag = "None") <=> (last.prev = n - 1)
            /\ last.ret.tag = "Some" =>
                   /\ current = last.prev + 1
                   /\ last.ret = SomeRecord(current, records[current + 1])
            /\ last.ret.tag = "None" =>
                   /\ current = last.prev
                   /\ advCount = n - 1 - advStart
            /\ current = advStart + advCount
            /\ current <= n - 1

\* C5 witness: a run of advance calls begun above level 0 succeeded twice and
\* then returned nothing at the last level.
C5_Witness ==
    /\ last.op = "advance"
    /\ last.ret = None
    /\ advStart >= 1
    /\ advCount >= 2
    /\ current = Len(levels) - 1

\* Profile::new returned a table.
LoadReturned == ctor = "new" /\ ~(last.op = "new" /\ last.ret = Panic)

\* C6: every table a load returns holds at least one record, so that
\* init_config and last_config do not fail on it and the index 0 that the
\* load sets lies within the table.
C6_LoadedTableNonEmpty ==
    LoadReturned =>
        /\ Len(records) >= 1
        /\ init_config(records) # Panic
        /\ last_config(records) # Panic
        /\ last.op = "new" => (0 <= current /\ current < Len(records))

\* ------------------------------------------------------------------------
\* Claims about the connection
\* ------------------------------------------------------------------------

\* a is a prefix of b.
IsPrefix(a, b) ==
    /\ Len(a) <= Len(b)
    /\ \A i \in 1..Len(a) : a[i] = b[i]

\* The encodings of items, one after the other.
RECURSIVE Encodings(_)
Encodings(items) ==
    IF items = <<>> THEN <<>>
    ELSE Encoding(Head(items)) \o Encodings(Tail(items))

\* C7: round trip.  What the reader has yielded is at every moment a prefix
\* of the accepted frames (order kept, nothing twice, nothing made up); when
\* every accepted frame was flushed, the reader meets no decode error, and
\* once the stream has ended its polls yield the frames left and then the end
\* of the sequence, at which point it has yielded exactly the accepted
\* frames.
C7_RoundTrip ==
    /\ IsPrefix(yielded, accepted)
    /\ rlast.ret = "ErrDecode" => buffer # <<>>
    /\ (eof /\ rstate = "idle" /\ buffer = <<>>) => rlast.ret \in {"Some", "End"}
    /\ (rlast.ret = "End" /\ buffer = <<>>) => yielded = accepted

\* C7 witness: two frames went through a transport that split them on the
\* way out (more writes than frames) and on the way in (more reads than
\* frames), and the reader has yielded both and reported the end.
C7_Witness ==
    /\ rlast.ret = "End"
    /\ buffer = <<>>
    /\ Len(accepted) >= 2
    /\ yielded = accepted
    /\ nwrites > Len(accepted)
    /\ nreads > Len(accepted)

\* C8: the bytes the transport took so far, followed by the bytes still in
\* the buffer, are the encodings of the accepted frames in the order of
\* acceptance; a rejected frame is not among them.
C8_WriteFifo == Extend(sent, buffer) = Encodings(accepted)

\* C8 witness: a start_send wrote part of the buffer, met a would-block and
\* rejected its frame, the buffer now starting in the middle of a frame.
C8_Witness ==
    /\ scall.op = "start_send"
    /\ scall.ret = "NotReady"
    /\ scall.added >= 1
    /\ sent # <<>>
    /\ buffer # <<>>
    /\ Head(buffer).lo > 0
    /\ Len(accepted) >= 2

\* A start_send that began below the boundary and has returned.
BelowBoundaryCall ==
    /\ scall.op = "start_send"
    /\ scall.len0 < BACKPRESSURE_BOUNDARY

\* The buffer ends with the encoding of the item of the last call, which is
\* the frame accepted last.
ItemEncodedLast ==
    /\ buffer # <<>>
    /\ buffer[Len(buffer)] = Seg(scall.item, 0, EncodedLen(scall.item))
    /\ ByteLen(buffer) = scall.len0 - scall.added + EncodedLen(scall.item)
    /\ accepted # <<>>
    /\ accepted[Len(accepted)] = scall.item

\* A step that is a start_send called below the boundary.
BelowBoundaryStep ==
    /\ sstate = "idle"
    /\ ByteLen(buffer) < BACKPRESSURE_BOUNDARY
    /\ scall'.op = "start_send"
    /\ sstate' # "closed"
    /\ <<sstate, scall, buffer>>' # <<sstate, scall, buffer>>

C9_BelowBoundaryResult ==
    BelowBoundaryCall =>
        /\ ~scall.flushed
        /\ scall.writes = 0
        /\ scall.added = 0
        /\ scall.ret \in {"Ready", "ErrEncode"}
        /\ scall.ret = "Ready" => ItemEncodedLast

\* What a start_send called below the boundary leaves alone.
C9_BelowBoundaryQuiet ==
    BelowBoundaryStep =>
        /\ bytes' = bytes
        /\ sent' = sent
        /\ nwrites' = nwrites
        /\ sstate' # "flushing"
        /\ scall'.ret \in {"Ready", "ErrEncode"}
        /\ scall'.ret = "Ready" => buffer' = Extend(buffer, Encoding(scall'.item))

C10_AtBoundaryResult ==
    (scall.op = "start_send" /\ scall.len0 >= BACKPRESSURE_BOUNDARY) =>
        /\ scall.flushed
        /\ scall.ret \in {"Ready", "NotReady", "ErrEncode"} => scall.writes >= 1

\* A step in which a start_send that began at or above the boundary encodes
\* or rejects its frame: it is a return from poll_complete.
C10_AtBoundaryOrder ==
    (/\ scall'.op = "start_send"
     /\ scall'.len0 >= BACKPRESSURE_BOUNDARY
     /\ scall'.ret \in {"Ready", "NotReady", "ErrEncode"}
     /\ <<scall, buffer>>' # <<scall, buffer>>) =>
        /\ sstate = "flushing"
        /\ scall.ret = "Pending"
        /\ scall'.writes >= 1

\* C10: a start_send called with the buffer at or above the boundary runs a
\* flush attempt before its frame is encoded or rejected; no frame is encoded
\* or rejected at that occupancy without one in the same call.
C10_AtBoundaryFlushFirst ==
    []C10_AtBoundaryResult /\ [][C10_AtBoundaryOrder]_vars

\* C10 witness: a start_send called with the buffer exactly at the boundary
\* flushed a part of it and then accepted its frame.
C10_Witness ==
    /\ scall.op = "start_send"
    /\ scall.len0 = BACKPRESSURE_BOUNDARY
    /\ scall.flushed
    /\ scall.writes >= 1
    /\ scall.added >= 1
    /\ scall.ret = "Ready"

\* The errors of the flush attempt (poll_complete), which start_send passes
\* on.
FlushErrors == {"ErrIo", "ErrWriteZero"}

\* A start_send has returned, and its flush attempt, if it made one, did
\* not fail.
Decided ==
    /\ scall.op = "start_send"
    /\ scall.ret \notin ({"Pending"} \cup FlushErrors)

\* The bytes in the buffer when the last call reached its decision: those it
\* began with less those its flush attempt wrote.
LenAfterFlush == scall.len0 - scall.added

C11_RejectResult ==
    Decided =>
        /\ scall.ret \in {"NotReady", "Ready", "ErrEncode"}
        /\ scall.ret = "NotReady" <=>
               (scall.flushed /\ LenAfterFlush >= BACKPRESSURE_BOUNDARY)
        /\ scall.ret = "NotReady" => ByteLen(buffer) = LenAfterFlush
        /\ scall.ret = "Ready" => ItemEncodedLast

\* The step in which a start_send decides: it rejects exactly when the
\* buffer before the step, which is what the flush attempt left, is at the
\* boundary, and then buffer and accepted frames stay as they are; otherwise
\* the frame goes to the encoder.
C11_RejectStep ==
    (/\ scall'.op = "start_send"
     /\ scall'.ret \notin ({"Pending"} \cup FlushErrors)
     /\ scall' # scall) =>
        /\ scall'.ret = "NotReady" <=> ByteLen(buffer) >= BACKPRESSURE_BOUNDARY
        /\ scall'.ret = "NotReady" =>
               /\ buffer' = buffer
               /\ accepted' = accepted
               /\ sstate' = "idle"
               /\ scall.item = scall'.item
               /\ scall.ret = "Pending"
        /\ scall'.ret = "Ready" =>
               /\ buffer' = Extend(buffer, Encoding(scall'.item))
               /\ accepted' = Append(accepted, scall'.item)

C12_CounterIsSent ==
    /\ bytes \in Nat
    /\ bytes = ByteLen(sent)
    /\ nwrites = 0 => bytes = 0

\* The counter moves only upwards, only inside poll_complete, and by the
\* bytes one transport write took, which leave the front of the buffer.
C12_CounterStep ==
    /\ bytes' >= bytes
    /\ bytes' - bytes = ByteLen(sent') - ByteLen(sent)
    /\ bytes' # bytes =>
           /\ sstate = "flushing"
           /\ nwrites' = nwrites + 1
           /\ ByteLen(buffer') = ByteLen(buffer) - (bytes' - bytes)
           /\ scall'.added = scall.added + (bytes' - bytes)

\* C12: the counter starts at 0 and is at every moment the sum of the byte
\* counts of the transport writes poll_complete made; no step lowers or
\* resets it, so what a monitor reads at successive moments never decreases
\* and never exceeds what the transport took.
C12_CounterMonotone == []C12_CounterIsSent /\ [][C12_CounterStep]_vars

\* C12 witness: the counter holds the bytes of several writes, made by more
\* than one call, a part of a frame among them, with bytes still buffered.
C12_Witness ==
    /\ nwrites >= 2
    /\ scall.added >= 1
    /\ bytes > scall.added
    /\ bytes = ByteLen(sent)
    /\ bytes > BigLen
    /\ buffer # <<>>
    /\ Head(buffer).lo > 0

\* The state after a call that met a write of 0 bytes: the call returned the
\* error, and the buffer holds what it held before that write, not empty,
\* nothing appended.
C13_WriteZeroResult ==
    scall.ret = "ErrWriteZero" =>
        /\ scall.op \in {"start_send", "poll_complete"}
        /\ scall.flushed
        /\ sstate = "failed"
        /\ buffer # <<>>
        /\ ByteLen(buffer) = LenAfterFlush

\* poll_complete has reported completion only with the buffer empty.
C13_CompleteIsEmpty ==
    (scall.op = "poll_complete" /\ scall.ret = "Ready") => buffer = <<>>

\* A write of 0 bytes with the buffer not empty ends the call with the
\* error, in poll_complete and in a start_send alike, and changes neither
\* the buffer nor the counter nor the accepted frames; and the step that
\* reports completion finds and leaves the buffer empty.
C13_WriteZeroStep ==
    /\ WriteZero =>
           /\ scall'.ret = "ErrWriteZero"
           /\ scall'.op = scall.op
           /\ scall'.item = scall.item
           /\ sstate' = "failed"
    /\ (scall'.ret = "ErrWriteZero" /\ scall' # scall) =>
           /\ sstate = "flushing"
           /\ buffer # <<>>
           /\ buffer' = buffer
           /\ bytes' = bytes
           /\ sent' = sent
           /\ accepted' = accepted
    /\ (scall'.op = "poll_complete" /\ scall'.ret = "Ready" /\ scall' # scall) =>
           /\ buffer = <<>>
           /\ buffer' = <<>>

\* C13: a transport write that reports 0 bytes while the buffer is not
\* empty makes poll_complete return an error, and so a start_send whose
\* flush attempt met it, which neither encodes its frame nor hands it back;
\* that write leaves the buffer and the counter as they were; and
\* poll_complete never reports completion with bytes in the buffer.
C13_WriteZeroIsError ==
    [](C13_WriteZeroResult /\ C13_CompleteIsEmpty) /\ [][C13_WriteZeroStep]_vars

\* C13 witness: the flush attempt of a start_send wrote a part of the
\* buffer, then met a write of 0 bytes, and the call returned the error.
C13_Witness ==
    /\ scall.op = "start_send"
    /\ scall.ret = "ErrWriteZero"
    /\ scall.writes >= 2
    /\ scall.added >= 1
    /\ buffer # <<>>
    /\ bytes = ByteLen(sent)

\* After a clean end of stream the reader, between polls, has reported a
\* frame or the end of the sequence, and has yielded every accepted frame
\* that was flushed.
C14_CleanEofResult ==
    (eof /\ rbuffer = <<>> /\ ateof.bytes = 0) =>
        /\ rstate = "idle" => rlast.ret = "End"
        /\ rstate = "polling" => rlast.ret = "Pending"
        /\ Len(yielded) = ateof.yielded
        /\ nends >= 1 => rlast.ret \in {"End", "Pending"}

\* After a clean end of stream every step leaves the reader there: a poll
\* that returns returns the end of the sequence, nothing is yielded, nothing
\* is read.
C14_CleanEofStep ==
    (eof /\ rbuffer = <<>> /\ ateof.bytes = 0) =>
        /\ eof'
        /\ rbuffer' = <<>>
        /\ yielded' = yielded
        /\ rpos' = rpos
        /\ nreads' = nreads
        /\ rlast'.ret \in {"End", "Pending"}
        /\ (rstate = "polling" /\ rstate' = "idle") =>
               (rlast'.ret = "End" /\ nends' = nends + 1)

\* C14: after a clean end of stream (the transport read returns zero bytes
\* while the reader's buffer is empty) the reader reports the end of its
\* sequence, and every later poll yields no frame but the end again,
\* however often it is polled.
C14_EndIsFinal == []C14_CleanEofResult /\ [][C14_CleanEofStep]_vars

\* C14 witness: both accepted frames were yielded, the stream ended
\* cleanly, and the reader has reported the end of the sequence more than
\* once.
C14_Witness ==
    /\ eof
    /\ ateof.bytes = 0
    /\ ateof.yielded = 2
    /\ yielded = accepted
    /\ rlast.ret = "End"
    /\ nends = MaxEnds

\* The frames yielded since eof was set.
YieldedAtEof == Len(yielded) - ateof.yielded

C15_AtEofResult ==
    eof =>
        /\ ateof # NoEof
        /\ is_readable
        /\ YieldedAtEof >= 0
        /\ YieldedAtEof <= ateof.bytes - ByteLen(rbuffer)
        /\ decoder = "AsCodec" =>
               /\ YieldedAtEof = 0
               /\ (rstate = "idle" /\ rbuffer # <<>>) => rlast.ret = "ErrDecode"
               /\ (rstate = "idle" /\ rbuffer = <<>>) => rlast.ret = "End"

\* A step of a reader at end of stream: a poll that returns returns what
\* the decoder answered, one frame at most, and yields it; no other step
\* yields; an empty buffer yields nothing more.
C15_AtEofStep ==
    eof =>
        /\ (rstate = "polling" /\ rstate' = "idle") =>
               /\ rlast'.ret \in {"Some", "End", "ErrDecode"}
               /\ rlast'.ret = "Some" =>
                      /\ yielded' = Append(yielded, rlast'.item)
                      /\ ByteLen(rbuffer') < ByteLen(rbuffer)
               /\ rlast'.ret # "Some" =>
                      /\ yielded' = yielded
                      /\ rbuffer' = rbuffer
        /\ ~(rstate = "polling" /\ rstate' = "idle") => yielded' = yielded
        /\ rbuffer = <<>> => yielded' = yielded

C16_CurrentInRange ==
    (pstate = "ready" /\ Len(records) >= 1) =>
        /\ Len(levels) = Len(records)
        /\ 0 <= current
        /\ current < Len(records)
        /\ nth(records, current) # Panic
        /\ current_config(records, current) = nth(records, current)
        /\ current_config(records, current) = Value(records[current + 1].config)
        /\ (last.op \in {"adjust", "advance"} /\ last.ret.tag = "Some") =>
               /\ last.ret = SomeRecord(current, records[current + 1])
               /\ current # last.prev
        /\ (last.op \in {"adjust", "advance"} /\ last.ret.tag = "None") =>
               current = last.prev
        /\ last.op = "current" => last.ret = nth(records, current)

\* C16 witness: in a table of several records an adjust moved the index up
\* by more than one and returned the record it moved to, which is not the
\* last.
C16_Witness ==
    /\ pstate = "ready"
    /\ Len(records) >= 3
    /\ last.op = "adjust"
    /\ last.bw \in Comparable
    /\ last.ret.tag = "Some"
    /\ last.ret = SomeRecord(current, records[current + 1])
    /\ current > last.prev + 1
    /\ current < Len(records) - 1

\* ------------------------------------------------------------------------
\* Further claims about the reader
\* ------------------------------------------------------------------------

\* A transport read is attempted in this step: it brings bytes, reports the
\* end, would block or fails.
ReadAttempt ==
    \/ \E n \in Sizes(ByteLen(Wire)) : ReadSome(n)
    \/ ReadEof
    \/ ReadWouldBlock
    \/ ReadError

\* With eof set, the flag was set by a read of zero bytes, and no poll since
\* has returned what only a read returns.
C17_EofResult ==
    /\ eof <=> ateof # NoEof
    /\ eof =>
           /\ Wire = <<>>
           /\ WriteHalfGone
           /\ rlast.ret \in {"Pending", "Some", "End", "ErrDecode"}

\* A step from a state with eof set leaves it set and reads nothing; and
\* the step that sets it is the read of zero bytes.
C17_EofStep ==
    /\ eof =>
           /\ eof'
           /\ ateof' = ateof
           /\ rpos' = rpos
           /\ nreads' = nreads
           /\ ~ReadAttempt
           /\ rlast'.ret \in {"Pending", "Some", "End", "ErrDecode"}
    /\ (~eof /\ eof') => ReadEof

\* C17: once a read of zero bytes has set eof, no later poll clears it,
\* whether the poll yields a frame, reports the end of the sequence or
\* returns a decode error, and the reader reads the transport no more.
C17_EofSticky == []C17_EofResult /\ [][C17_EofStep]_vars

\* C17 witness: after eof was set, polls have reported the end of the
\* sequence, yielded a frame and returned a decode error, and eof is set.
C17_Witness ==
    /\ eof
    /\ nends >= 1
    /\ YieldedAtEof >= 1
    /\ rlast.ret = "ErrDecode"
    /\ rstate = "idle"

\* The states the two flags encode.
NeedMoreBytes == ~eof /\ ~is_readable
Readable == ~eof /\ is_readable
AtEndOfStream == eof /\ is_readable

\* C18: assert!(!self.eof) never fails.  In every reachable state, whatever
\* the reads (would-block, some bytes, zero bytes, failure) and the decoder
\* (a frame, no frame, an error) did, eof is not set without is_readable, so
\* the flags encode NeedMoreBytes, Readable or AtEndOfStream and a poll at
\* end of stream returns before the assertion.
C18_AssertionHolds ==
    /\ ~AssertFails
    /\ ~(eof /\ ~is_readable)
    /\ NeedMoreBytes \/ Readable \/ AtEndOfStream
    /\ rstate = "idle" /\ rlast.ret \in {"NotReady", "ErrIo"} => NeedMoreBytes
    /\ rstate = "idle" /\ rlast.ret \in {"Some", "ErrDecode"} =>
           (Readable \/ AtEndOfStream)
    /\ rstate = "idle" /\ rlast.ret = "End" => AtEndOfStream

\* C18 witness: a poll is under way at end of stream, after reads that
\* brought bytes, a frame decoded before the end, and a poll that already
\* reported the end of the sequence.
C18_Witness ==
    /\ AtEndOfStream
    /\ rstate = "polling"
    /\ nreads >= 2
    /\ ateof.yielded >= 1
    /\ nends >= 1

\* ------------------------------------------------------------------------
\* Further claims about the sink
\* ------------------------------------------------------------------------

\* M: the longest encoding of a frame.
MaxEncodedLen == IF SmallLen > BigLen THEN SmallLen ELSE BigLen

\* C19: the buffer holds at most BOUNDARY - 1 + M bytes, M being the most
\* bytes a frame encodes to, after any sequence of start_send and
\* poll_complete calls and whatever the transport does (taking nothing
\* included): a frame is encoded only with fewer than BOUNDARY bytes in the
\* buffer.
C19_BufferBounded ==
    /\ \A it \in Items : EncodedLen(it) <= MaxEncodedLen
    /\ ByteLen(buffer) <= BACKPRESSURE_BOUNDARY - 1 + MaxEncodedLen
    /\ (scall.op = "start_send" /\ scall.ret = "Ready") =>
           /\ LenAfterFlush < BACKPRESSURE_BOUNDARY
           /\ ByteLen(buffer) = LenAfterFlush + EncodedLen(scall.item)

\* C19 witness: the bound is met: a frame of M bytes was encoded with
\* BOUNDARY - 1 bytes in the buffer.
C19_Witness ==
    /\ ByteLen(buffer) = BACKPRESSURE_BOUNDARY - 1 + MaxEncodedLen
    /\ scall.op = "start_send"
    /\ scall.ret = "Ready"
    /\ EncodedLen(scall.item) = MaxEncodedLen

\* C20 as stated, the retried frame: a start_send that offers a rejected
\* frame again and is not rejected again has accepted it.
C20_RetryAsStated ==
    (scall.op = "start_send" /\ scall.retry /\ scall.ret \notin {"Pending", "NotReady"}) =>
        (scall.ret = "Ready" /\ ItemEncodedLast)

\* A step inside poll_complete takes at least one byte off the buffer, or
\* ends the call (would-block, failure, or completion with the buffer
\* empty); and completion is reported with the buffer empty only.
C20_FlushStep ==
    /\ sstate = "flushing" =>
           \/ /\ ByteLen(buffer') < ByteLen(buffer)
              /\ buffer' = DropBytes(buffer, ByteLen(buffer) - ByteLen(buffer'))
              /\ sstate' = "flushing"
           \/ /\ sstate' # "flushing"
              /\ scall'.ret # "Pending"
    /\ (scall'.op = "poll_complete" /\ scall'.ret = "Ready" /\ scall.ret = "Pending") =>
           (buffer = <<>> /\ buffer' = <<>>)

\* poll_complete has reported completion and the buffer is empty.
Completed ==
    /\ scall.op = "poll_complete"
    /\ scall.ret = "Ready"
    /\ buffer = <<>>

\* The encoder failed, which ends the connection.
EncoderFailed == sstate = "failed" /\ scall.ret = "ErrEncode"

\* A frame is rejected and not yet offered again.
RejectedPending == scall.op = "start_send" /\ scall.ret = "NotReady"

\* The rejected frame, offered again, was accepted.
RetryAccepted ==
    /\ scall.op = "start_send"
    /\ scall.retry
    /\ scall.ret = "Ready"
    /\ ItemEncodedLast

\* C20 as amended: every transport write inside poll_complete takes at
\* least one byte off the front of the buffer, suspends on would-block or
\* fails, so a call of poll_complete ends; with a transport that does not
\* fail, takes bytes in the end and completes its flush in the end,
\* repeated polls of poll_complete report completion with the buffer empty
\* in the end, never with bytes in the buffer, and a rejected frame that the
\* caller keeps offering is accepted in the end, unless the encoder fails,
\* whose error ends the connection.
C20_FlushProgress ==
    /\ [][C20_FlushStep]_vars
    /\ (sstate = "flushing") ~> (sstate # "flushing")
    /\ (buffer # <<>>) ~> (Completed \/ EncoderFailed)
    /\ RejectedPending ~> (RetryAccepted \/ EncoderFailed)

\* C20 witness: a frame was rejected, the caller offered it again and was
\* rejected again after a write that took bytes, and at a later offer the
\* frame was accepted.
C20_Witness ==
    /\ RetryAccepted
    /\ scall.flushed
    /\ scall.added >= 1
    /\ nwrites >= 2
    /\ bytes > scall.added

====
